---- MODULE Spec2Model ----
(***************************************************************************)
(* A model of the edot editing core: the Line/Column/Position/Selection    *)
(* algebra of src/location.rs over a rope, and the modal event handler of  *)
(* src/edot.rs.  Ropes are sequences of one-character strings.  A Rust     *)
(* panic is a result value of its own, distinct from a returned error.     *)
(***************************************************************************)
EXTENDS Integers, Sequences, FiniteSets, TLC

\* ------------------------------------------------------------------------
\* Bounds
\* ------------------------------------------------------------------------
MaxLen == 3

NL == "\n"

\* Characters that are typed into a buffer.
Chars == {"a", NL}

\* ------------------------------------------------------------------------
\* Results: Ok, the three MovementError values (by their Display strings),
\* and the panics the code can raise.
\* ------------------------------------------------------------------------
Ok == "Ok"

NoPrevLine == "no previous line"

NoNextLine == "no next line"

SelectionEmpty == "selection is empty"

MovementErrors == {SelectionEmpty, NoPrevLine, NoNextLine}

PanicSelectionEmpty == "panic: SelectionEmpty"

PanicNonZero == "panic: NonZeroUsize::new(0).unwrap()"

PanicBounds == "panic: rope index out of bounds"

PanicUnwrap == "panic: unwrap on Err"

PanicAssert == "panic: assertion failed"

PanicArgs == "panic: slice index out of bounds"

Panics == {PanicSelectionEmpty, PanicNonZero, PanicBounds, PanicUnwrap, PanicAssert, PanicArgs}

IsPanic(res) == res \in Panics

\* ------------------------------------------------------------------------
\* Rope (ropey): only the queries and edits the editor uses.
\* ------------------------------------------------------------------------
len_chars(rope) == Len(rope)

\* Number of lines: one more than the number of line breaks.
len_lines(rope) == 1 + Cardinality({i \in 1..Len(rope) : rope[i] = NL})

\* 0-based char index of the start of the 0-based line idx; idx = len_lines
\* is allowed and gives len_chars.  Callers check idx <= len_lines.
line_to_char(rope, idx) ==
    IF idx = 0 THEN 0
    ELSE IF idx >= len_lines(rope) THEN Len(rope)
    ELSE CHOOSE i \in 1..Len(rope) :
             /\ rope[i] = NL
             /\ Cardinality({j \in 1..i : rope[j] = NL}) = idx

\* Number of chars of the 0-based line idx, its line break included.
\* Callers check idx < len_lines.
line_len(rope, idx) == line_to_char(rope, idx + 1) - line_to_char(rope, idx)

\* rope.insert_char(idx, c) for idx <= len_chars.
rope_insert(rope, idx, c) ==
    SubSeq(rope, 1, idx) \o <<c>> \o SubSeq(rope, idx + 1, Len(rope))

\* rope.remove(lo..hi) for lo <= hi <= len_chars.
rope_remove(rope, lo, hi) ==
    SubSeq(rope, 1, lo) \o SubSeq(rope, hi + 1, Len(rope))

\* ------------------------------------------------------------------------
\* Line, Column, Position
\* ------------------------------------------------------------------------
Pos(l, c) == [line |-> l, column |-> c]

\* The result of an operation on a Position.
PR(p, r) == [pos |-> p, res |-> r]

\* Derived Ord on Position: line first, then column.
PosLt(a, b) == a.line < b.line \/ (a.line = b.line /\ a.column < b.column)

PosLe(a, b) == a = b \/ PosLt(a, b)

Line_is_first(line) == line = 1

Line_is_last(line, rope) == line = len_lines(rope)

\* rope.line(i) panics for i >= len_lines.
Line_in_rope(line, rope) == line <= len_lines(rope)

Line_len(line, rope) == line_len(rope, line - 1)

Line_is_empty(line, rope) == Line_len(line, rope) = 0

Column_is_first(column) == column = 1

\* Position::char_of; line_to_char panics for a line index > len_lines.
char_of_defined(pos, rope) == pos.line - 1 <= len_lines(rope)

char_of(pos, rope) == line_to_char(rope, pos.line - 1) + (pos.column - 1)

is_valid(pos, rope) == pos.column <= Line_len(pos.line, rope)

\* ------------------------------------------------------------------------
\* Position::move_to, one operator per Movement
\* ------------------------------------------------------------------------
move_Up(pos, rope) ==
    IF Line_is_first(pos.line) THEN PR(pos, NoPrevLine)
    ELSE PR(Pos(pos.line - 1, pos.column), Ok)

move_Down_no_length_check(pos, rope) ==
    IF ~Line_is_last(pos.line, rope)
    THEN IF ~Line_in_rope(pos.line + 1, rope) THEN PR(pos, PanicBounds)
         ELSE PR(Pos(pos.line + 1, pos.column), Ok)
    ELSE PR(pos, NoNextLine)

move_Down(pos, rope) ==
    IF ~Line_is_last(pos.line, rope)
    THEN IF ~Line_in_rope(pos.line + 1, rope) THEN PR(pos, PanicBounds)
         ELSE IF Line_len(pos.line + 1, rope) > 0
              THEN PR(Pos(pos.line + 1, pos.column), Ok)
              ELSE PR(pos, NoNextLine)
    ELSE PR(pos, NoNextLine)

move_LineStart(pos, rope) == PR(Pos(pos.line, 1), Ok)

move_LineEnd_before_newline(pos, rope) ==
    IF ~Line_in_rope(pos.line, rope) THEN PR(pos, PanicBounds)
    ELSE IF Line_len(pos.line, rope) <= 1 THEN PR(pos, PanicNonZero)
    ELSE PR(Pos(pos.line, Line_len(pos.line, rope) - 1), Ok)

move_LineEnd(pos, rope) ==
    IF ~Line_in_rope(pos.line, rope) THEN PR(pos, PanicBounds)
    ELSE IF Line_len(pos.line, rope) = 0 THEN PR(pos, PanicNonZero)
    ELSE PR(Pos(pos.line, Line_len(pos.line, rope)), Ok)

\* .unwrap() on the result of move_to
unwrap(r) == IF r.res \in MovementErrors THEN PR(r.pos, PanicUnwrap) ELSE r

\* Sequencing: run the next step on the position left by a successful one.
and_then(r, next(_)) == IF r.res = Ok THEN next(r.pos) ELSE r

\* Position::validate that leaves every position as it is.
validate_unchecked(pos, rope) == PR(pos, Ok)

\* Position::validate.  The empty first line ends in panic!(SelectionEmpty).
validate(pos, rope) ==
    IF ~Line_in_rope(pos.line, rope) THEN PR(pos, PanicBounds)
    ELSE IF is_valid(pos, rope) THEN PR(pos, Ok)
    ELSE IF Line_is_empty(pos.line, rope)
         THEN IF ~Line_is_first(pos.line)
              THEN and_then(unwrap(move_Up(pos, rope)),
                            LAMBDA p : unwrap(move_LineEnd(p, rope)))
              ELSE IF len_chars(rope) # 0 THEN PR(pos, PanicAssert)
                   ELSE PR(Pos(1, 1), PanicSelectionEmpty)
         ELSE unwrap(move_LineEnd(pos, rope))

move_Left(pos, rope) ==
    and_then(validate(pos, rope),
        LAMBDA v :
            IF Column_is_first(v.column)
            THEN IF ~Line_is_first(v.line)
                 THEN and_then(move_Up(v, rope), LAMBDA p : move_LineEnd(p, rope))
                 ELSE PR(v, NoPrevLine)
            ELSE PR(Pos(v.line, v.column - 1), Ok))

move_Right(pos, rope) ==
    and_then(validate(pos, rope),
        LAMBDA v :
            IF v.column = Line_len(v.line, rope)
            THEN and_then(move_Down(v, rope), LAMBDA p : move_LineStart(p, rope))
            ELSE PR(Pos(v.line, v.column + 1), Ok))

move_FileStart(pos, rope) == move_LineStart(Pos(1, pos.column), rope)

move_FileEnd(pos, rope) ==
    LET last == len_lines(rope) IN
    IF ~Line_is_empty(last, rope) THEN move_LineStart(Pos(last, pos.column), rope)
    ELSE IF last - 1 = 0 THEN PR(pos, PanicNonZero)
    ELSE move_LineStart(Pos(last - 1, pos.column), rope)

Movements == {"Left", "Right", "Up", "Down", "LineStart", "LineEnd", "FileStart", "FileEnd"}

move_to(pos, rope, movement) ==
    CASE movement = "Left" -> move_Left(pos, rope)
      [] movement = "Right" -> move_Right(pos, rope)
      [] movement = "Up" -> move_Up(pos, rope)
      [] movement = "Down" -> move_Down(pos, rope)
      [] movement = "LineStart" -> move_LineStart(pos, rope)
      [] movement = "LineEnd" -> move_LineEnd(pos, rope)
      [] movement = "FileStart" -> move_FileStart(pos, rope)
      [] movement = "FileEnd" -> move_FileEnd(pos, rope)

\* ------------------------------------------------------------------------
\* Position edits and validate_fix
\* ------------------------------------------------------------------------
\* The result of an operation on a rope: the rope and Ok or a panic.
RR(r, res) == [rope |-> r, res |-> res]

\* Position::insert_char; rope.insert_char panics for an index > len_chars.
insert_char(pos, rope, c) ==
    IF ~char_of_defined(pos, rope) THEN RR(rope, PanicBounds)
    ELSE IF char_of(pos, rope) > len_chars(rope) THEN RR(rope, PanicBounds)
    ELSE RR(rope_insert(rope, char_of(pos, rope), c), Ok)

\* The result of an operation on a Position that may edit the rope.
PF(p, r, res) == [pos |-> p, rope |-> r, res |-> res]

\* Position::validate_fix: as validate, but the empty first line gets a
\* newline inserted at char 0 instead of a panic.
validate_fix(pos, rope) ==
    IF ~Line_in_rope(pos.line, rope) THEN PF(pos, rope, PanicBounds)
    ELSE IF is_valid(pos, rope) THEN PF(pos, rope, Ok)
    ELSE IF Line_is_empty(pos.line, rope)
         THEN IF ~Line_is_first(pos.line)
              THEN LET r == and_then(unwrap(move_Up(pos, rope)),
                                     LAMBDA p : unwrap(move_LineEnd(p, rope)))
                   IN PF(r.pos, rope, r.res)
              ELSE IF len_chars(rope) # 0 THEN PF(pos, rope, PanicAssert)
                   ELSE PF(Pos(1, 1), rope_insert(rope, 0, NL), Ok)
         ELSE LET r == unwrap(move_LineEnd(pos, rope))
              IN PF(r.pos, rope, r.res)

\* ------------------------------------------------------------------------
\* Selection
\* ------------------------------------------------------------------------
Sel(s, e) == [start |-> s, end |-> e]

\* The result of an operation on a Selection that may edit the rope.
SR(s, r, res) == [sel |-> s, rope |-> r, res |-> res]

flip(sel) == Sel(sel.end, sel.start)

order_when_forward(sel) == IF PosLt(sel.start, sel.end) THEN flip(sel) ELSE sel

order(sel) == IF PosLt(sel.end, sel.start) THEN flip(sel) ELSE sel

ordered(sel) == order(sel)

flipped(sel) == flip(sel)

contains_unordered(sel, other) == PosLe(sel.start, other) /\ PosLe(other, sel.end)

contains(sel, other) ==
    LET self == order(sel) IN PosLe(self.start, other) /\ PosLe(other, self.end)

\* Selection::range_of as the pair <<lo, hi>> of the half-open range lo..hi.
range_of_defined(sel, rope) ==
    char_of_defined(sel.start, rope) /\ char_of_defined(sel.end, rope)

range_of(sel, rope) ==
    LET self == order(sel) IN <<char_of(self.start, rope), char_of(self.end, rope) + 1>>

\* Selection::validate: start, then end.
Selection_validate(sel, rope) ==
    LET s == validate(sel.start, rope) IN
    IF s.res # Ok THEN SR(sel, rope, s.res)
    ELSE LET e == validate(sel.end, rope) IN SR(Sel(s.pos, e.pos), rope, e.res)

\* Selection::valid is validate on a copy.
valid(sel, rope) == Selection_validate(sel, rope)

\* Selection::validate_fix: start, then end on the rope start left.
Selection_validate_fix(sel, rope) ==
    LET s == validate_fix(sel.start, rope) IN
    IF s.res # Ok THEN SR(sel, rope, s.res)
    ELSE LET e == validate_fix(sel.end, s.rope) IN SR(Sel(s.pos, e.pos), e.rope, e.res)

\* Selection::remove_from
remove_from(sel, rope) ==
    LET v == Selection_validate(sel, rope) IN
    IF v.res # Ok THEN v
    ELSE LET o == order(v.sel)
             rg == range_of(o, rope)
         IN IF ~range_of_defined(o, rope) \/ rg[1] > rg[2] \/ rg[2] > len_chars(rope)
            THEN SR(o, rope, PanicBounds)
            ELSE Selection_validate_fix(Sel(o.start, o.start),
                                        rope_remove(rope, rg[1], rg[2]))

\* ------------------------------------------------------------------------
\* Editor state (struct Edot, Window, Buffer)
\* ------------------------------------------------------------------------
VARIABLES
    windows,    \* IdVec<WindowId, Window>: windows[id + 1] is the window with that id
    buffers,    \* IdVec<BufferId, Buffer>
    focused,    \* WindowId
    message,    \* Option<(Importance, String)>: the pending status message
    exit,       \* number of messages queued on the exit channel
    running,    \* FALSE once Edot::run has returned
    aborted,    \* None, or the panic that ended the process
    keys        \* the key events handled so far, while they spell i c1..cn Esc

\* Inputs and results of the functions of location.rs applied on their own.
VARIABLES
    rope,       \* a rope
    sel,        \* a Selection; sel.end is the Position that movements act on
    point,      \* a Position argument
    last        \* the function applied last, its inputs and its result

edot_vars == <<windows, buffers, focused, message, exit, running, aborted, keys>>

loc_vars == <<rope, sel, point, last>>

vars == <<windows, buffers, focused, message, exit, running, aborted, keys, rope, sel, point, last>>

None == "None"

Normal == [tag |-> "Normal"]

Insert == [tag |-> "Insert"]

Append_ == [tag |-> "Append"]

Goto(drag) == [tag |-> "Goto", drag |-> drag]

Command == [tag |-> "Command"]

\* The editor data that event handling reads and writes.
Ed(w, b, f, x) == [windows |-> w, buffers |-> b, focused |-> f, exit |-> x]

\* The result of an editor operation: the editor as the operation left it
\* and Ok, an error message or a panic.
ER(ed, res) == [ed |-> ed, res |-> res]

window_of(ed, window_id) == ed.windows[window_id + 1]

content_of(ed, window_id) == ed.buffers[window_of(ed, window_id).buffer + 1].content

selection_of(ed, window_id, selection_id) ==
    window_of(ed, window_id).selections[selection_id + 1]

with_selection(ed, window_id, selection_id, s) ==
    [ed EXCEPT !.windows[window_id + 1].selections[selection_id + 1] = s]

with_content(ed, window_id, r) ==
    [ed EXCEPT !.buffers[window_of(ed, window_id).buffer + 1].content = r]

\* Edot::set_mode
set_mode(ed, window, mode) == [ed EXCEPT !.windows[window + 1].mode = mode]

\* Edot::selections: the ids 0 .. len - 1, taken when the loop starts.
selections(ed, window) == Len(window_of(ed, window).selections)

\* Edot::insert_char_before
insert_char_before(ed, window_id, selection_id, c) ==
    LET r == insert_char(selection_of(ed, window_id, selection_id).start,
                         content_of(ed, window_id), c)
    IN ER(with_content(ed, window_id, r.rope), r.res)

\* Edot::insert_char_after
insert_char_after(ed, window_id, selection_id, c) ==
    LET r == insert_char(selection_of(ed, window_id, selection_id).end,
                         content_of(ed, window_id), c)
    IN ER(with_content(ed, window_id, r.rope), r.res)

move_selection_collapsing_on_error(ed, window_id, selection_id, movement, drag) ==
    LET s == selection_of(ed, window_id, selection_id)
        r == move_to(s.end, content_of(ed, window_id), movement)
    IN IF ~drag
       THEN ER(with_selection(ed, window_id, selection_id, Sel(r.pos, r.pos)), r.res)
       ELSE ER(with_selection(ed, window_id, selection_id, Sel(s.start, r.pos)), r.res)

\* Edot::move_selection with the drag flag ignored: the anchor always stays.
move_selection_always_dragging(ed, window_id, selection_id, movement, drag) ==
    LET s == selection_of(ed, window_id, selection_id)
        r == move_to(s.end, content_of(ed, window_id), movement)
    IN ER(with_selection(ed, window_id, selection_id, Sel(s.start, r.pos)), r.res)

\* Edot::move_selection: the cursor is moved in place, also when move_to
\* fails after validation has changed it.
move_selection(ed, window_id, selection_id, movement, drag) ==
    LET s == selection_of(ed, window_id, selection_id)
        r == move_to(s.end, content_of(ed, window_id), movement)
    IN IF r.res # Ok
       THEN ER(with_selection(ed, window_id, selection_id, Sel(s.start, r.pos)), r.res)
       ELSE IF ~drag
            THEN ER(with_selection(ed, window_id, selection_id, Sel(r.pos, r.pos)), Ok)
            ELSE ER(with_selection(ed, window_id, selection_id, Sel(s.start, r.pos)), Ok)

shift_selection_cursor_only(ed, window_id, selection_id, movement) ==
    LET s == selection_of(ed, window_id, selection_id)
        b == move_to(s.end, content_of(ed, window_id), movement)
    IN ER(with_selection(ed, window_id, selection_id, Sel(s.start, b.pos)), b.res)

\* Edot::shift_selection
shift_selection(ed, window_id, selection_id, movement) ==
    LET s == selection_of(ed, window_id, selection_id)
        a == move_to(s.start, content_of(ed, window_id), movement)
    IN IF a.res # Ok
       THEN ER(with_selection(ed, window_id, selection_id, Sel(a.pos, s.end)), a.res)
       ELSE LET b == move_to(s.end, content_of(ed, window_id), movement)
            IN ER(with_selection(ed, window_id, selection_id, Sel(a.pos, b.pos)), b.res)

\* Edot::delete_selection
delete_selection(ed, window_id, selection_id) ==
    LET r == remove_from(selection_of(ed, window_id, selection_id),
                         content_of(ed, window_id))
    IN ER(with_content(with_selection(ed, window_id, selection_id, r.sel),
                       window_id, r.rope), r.res)

\* Edot::order_selection
order_selection(ed, window_id, selection_id) ==
    ER(with_selection(ed, window_id, selection_id,
                      order(selection_of(ed, window_id, selection_id))), Ok)

\* for selection_id in self.selections(window_id) { body(selection_id)? }:
\* the ids 0 .. n - 1 in turn, stopping at the first error or panic.
for_selections(ed, n, body(_, _)) ==
    LET run[i \in 0..n] ==
            IF i = 0 THEN ER(ed, Ok)
            ELSE LET r == run[i - 1]
                 IN IF r.res # Ok THEN r ELSE body(r.ed, i - 1)
    IN run[n]

\* Edot::move_selections
move_selections(ed, window_id, movement, drag) ==
    for_selections(ed, selections(ed, window_id),
        LAMBDA e, id : move_selection(e, window_id, id, movement, drag))

\* Edot::delete_selections
delete_selections(ed, window_id) ==
    for_selections(ed, selections(ed, window_id),
        LAMBDA e, id : delete_selection(e, window_id, id))

\* Edot::order_selections
order_selections(ed, window_id) ==
    for_selections(ed, selections(ed, window_id),
        LAMBDA e, id : order_selection(e, window_id, id))

\* Sequencing of editor operations with `?`.
then(r, next(_)) == IF r.res = Ok THEN next(r.ed) ELSE r

\* ------------------------------------------------------------------------
\* Commands
\* ------------------------------------------------------------------------
NoCommandGiven == "no command given"

CommandDoesntExist == "command doesn't exist"

FailedToParse == "failed to parse command"

IoError == "io error"

\* shlex::split on the characters the command line can hold here: blanks
\* separate words, a double quote opens a quoted part that runs to the next
\* double quote.  Some(words), or None when the input ends inside quotes.
Some(words) == [some |-> TRUE, words |-> words]

NoWords == [some |-> FALSE, words |-> <<>>]

RECURSIVE shlex_from(_, _, _, _, _)
shlex_from(s, i, words, word, state) ==
    IF i > Len(s)
    THEN CASE state = "blank" -> Some(words)
           [] state = "word" -> Some(Append(words, word))
           [] state = "quoted" -> NoWords
    ELSE CASE state = "blank" ->
                IF s[i] = " " THEN shlex_from(s, i + 1, words, <<>>, "blank")
                ELSE IF s[i] = "\"" THEN shlex_from(s, i + 1, words, <<>>, "quoted")
                ELSE shlex_from(s, i + 1, words, <<s[i]>>, "word")
           [] state = "word" ->
                IF s[i] = " " THEN shlex_from(s, i + 1, Append(words, word), <<>>, "blank")
                ELSE IF s[i] = "\"" THEN shlex_from(s, i + 1, words, word, "quoted")
                ELSE shlex_from(s, i + 1, words, Append(word, s[i]), "word")
           [] state = "quoted" ->
                IF s[i] = "\"" THEN shlex_from(s, i + 1, words, word, "word")
                ELSE shlex_from(s, i + 1, words, Append(word, s[i]), "quoted")

shlex(s) == shlex_from(s, 1, <<>>, <<>>, "blank")

\* Edot::quit
quit(ed) == [ed EXCEPT !.exit = @ + 1]

\* Quit::run
Quit_run(ed, window, args) == ER(quit(ed), Ok)

\* A file that opened is its contents; one that did not is NoFile.
NoFile == "NoFile"

\* Edit::run without the assignment of focused.
Edit_run_keeping_focus(ed, window, args, file) ==
    IF Len(args) = 0 THEN ER(ed, PanicArgs)
    ELSE IF file = NoFile THEN ER(ed, IoError)
    ELSE LET buffer == [path |-> <<args[1]>>, name |-> args[1], content |-> file]
             buffer_id == Len(ed.buffers)
             window_ == [buffer |-> buffer_id,
                         command |-> <<>>,
                         mode |-> Normal,
                         selections |-> <<Sel(Pos(1, 1), Pos(1, 1))>>,
                         top |-> 1]
         IN ER([ed EXCEPT !.buffers = Append(@, buffer),
                          !.windows = Append(@, window_)], Ok)

\* Edit::run with the new window on the first buffer.
Edit_run_on_first_buffer(ed, window, args, file) ==
    IF Len(args) = 0 THEN ER(ed, PanicArgs)
    ELSE IF file = NoFile THEN ER(ed, IoError)
    ELSE LET buffer == [path |-> <<args[1]>>, name |-> args[1], content |-> file]
             window_ == [buffer |-> 0,
                         command |-> <<>>,
                         mode |-> Normal,
                         selections |-> <<Sel(Pos(1, 1), Pos(1, 1))>>,
                         top |-> 1]
             window_id == Len(ed.windows)
         IN ER([ed EXCEPT !.buffers = Append(@, buffer),
                          !.windows = Append(@, window_),
                          !.focused = window_id], Ok)

\* Edit::run with the new window put in front of the others.
Edit_run_inserting_first(ed, window, args, file) ==
    IF Len(args) = 0 THEN ER(ed, PanicArgs)
    ELSE IF file = NoFile THEN ER(ed, IoError)
    ELSE LET buffer == [path |-> <<args[1]>>, name |-> args[1], content |-> file]
             buffer_id == Len(ed.buffers)
             window_ == [buffer |-> buffer_id,
                         command |-> <<>>,
                         mode |-> Normal,
                         selections |-> <<Sel(Pos(1, 1), Pos(1, 1))>>,
                         top |-> 1]
         IN ER([ed EXCEPT !.buffers = Append(@, buffer),
                          !.windows = <<window_>> \o @,
                          !.focused = 0], Ok)

\* Edit::run with the buffer pushed before the file is opened.
Edit_run_pushing_before_open(ed, window, args, file) ==
    IF Len(args) = 0 THEN ER(ed, PanicArgs)
    ELSE IF file = NoFile
    THEN ER([ed EXCEPT !.buffers =
                Append(@, [path |-> <<args[1]>>, name |-> args[1], content |-> <<>>])],
            IoError)
    ELSE LET buffer == [path |-> <<args[1]>>, name |-> args[1], content |-> file]
             buffer_id == Len(ed.buffers)
             window_ == [buffer |-> buffer_id,
                         command |-> <<>>,
                         mode |-> Normal,
                         selections |-> <<Sel(Pos(1, 1), Pos(1, 1))>>,
                         top |-> 1]
             window_id == Len(ed.windows)
         IN ER([ed EXCEPT !.buffers = Append(@, buffer),
                          !.windows = Append(@, window_),
                          !.focused = window_id], Ok)

\* Edit::run.  file is what canonicalize, File::open and Rope::from_reader
\* give for the path args[0].
Edit_run(ed, window, args, file) ==
    IF Len(args) = 0 THEN ER(ed, PanicArgs)
    ELSE IF file = NoFile THEN ER(ed, IoError)
    ELSE LET buffer == [path |-> <<args[1]>>, name |-> args[1], content |-> file]
             buffer_id == Len(ed.buffers)
             window_ == [buffer |-> buffer_id,
                         command |-> <<>>,
                         mode |-> Normal,
                         selections |-> <<Sel(Pos(1, 1), Pos(1, 1))>>,
                         top |-> 1]
             window_id == Len(ed.windows)
         IN ER([ed EXCEPT !.buffers = Append(@, buffer),
                          !.windows = Append(@, window_),
                          !.focused = window_id], Ok)

\* The registry filled by Edot::run: name -> command.
commands == [name \in {<<"q">>, <<"q", "u", "i", "t">>, <<"e">>, <<"e", "d", "i", "t">>} |->
                IF name[1] = "q" THEN "Quit" ELSE "Edit"]

\* Edot::cmd
cmd(ed, args, file) ==
    IF Len(args) = 0 THEN ER(ed, NoCommandGiven)
    ELSE IF args[1] \notin DOMAIN commands THEN ER(ed, CommandDoesntExist)
    ELSE IF commands[args[1]] = "Quit" THEN Quit_run(ed, ed.focused, Tail(args))
    ELSE Edit_run(ed, ed.focused, Tail(args), file)

\* ------------------------------------------------------------------------
\* Bounds and inputs of the event loop
\* ------------------------------------------------------------------------
MaxWindows == 2

MaxExit == 1

\* Characters typed on the command line, and the command lines typed:
\* quit, edit without a path, edit of the path q, a name that is not
\* registered, an unclosed quote and a blank line.
CmdChars == {"q", "e", " ", "\""}

CmdLines == {<<"q">>, <<"e">>, <<"e", " ", "q">>, <<"e", "e">>, <<"\"">>, <<" ">>}

CmdPrefixes == UNION {{SubSeq(line, 1, n) : n \in 0..Len(line)} : line \in CmdLines}

\* What the file system gives for a path.
Files == {NoFile, <<>>, <<"a", NL>>}

\* Key events that are not characters or have an arm of their own.
Esc == "Esc"

Backspace == "Backspace"

Tab == "\t"

\* Any event no arm matches in any mode (a function key, a mouse event).
Unmatched == "F1"

\* Total size of the text held, which the bounds cap.
RECURSIVE total_len(_)
total_len(bs) == IF bs = <<>> THEN 0 ELSE Len(Head(bs).content) + total_len(Tail(bs))

\* The i arm deleting the selections as the c arm does.
Normal_i_deleting(ed) ==
    then(delete_selections(ed, ed.focused),
         LAMBDA e : ER(set_mode(e, e.focused, Insert), Ok))

\* ------------------------------------------------------------------------
\* Edot::event, one operator per arm
\* ------------------------------------------------------------------------
Normal_i(ed) ==
    then(order_selections(ed, ed.focused),
         LAMBDA e : ER(set_mode(e, e.focused, Insert), Ok))

Normal_c(ed) ==
    then(delete_selections(ed, ed.focused),
         LAMBDA e : ER(set_mode(e, e.focused, Insert), Ok))

Normal_a(ed) ==
    then(order_selections(ed, ed.focused),
         LAMBDA e : ER(set_mode(e, e.focused, Append_), Ok))

Normal_A(ed) ==
    then(move_selections(ed, ed.focused, "LineEnd", FALSE),
         LAMBDA e : ER(set_mode(e, e.focused, Insert), Ok))

Normal_o(ed) ==
    then(for_selections(ed, selections(ed, ed.focused),
            LAMBDA e0, id :
                then(move_selection(e0, e0.focused, id, "LineEnd", FALSE), LAMBDA e1 :
                then(insert_char_after(e1, e1.focused, id, NL), LAMBDA e2 :
                then(move_selection(e2, e2.focused, id, "Down", FALSE), LAMBDA e3 :
                     move_selection(e3, e3.focused, id, "LineStart", FALSE))))),
         LAMBDA e : ER(set_mode(e, e.focused, Insert), Ok))

Normal_g(ed, drag) == ER(set_mode(ed, ed.focused, Goto(drag)), Ok)

Normal_colon(ed) == ER(set_mode(ed, ed.focused, Command), Ok)

\* The movement keys of Normal mode: key -> <<movement, drag>>.
NormalMoves ==
    [key \in {"h", "j", "k", "l", "Left", "Down", "Up", "Right", "H", "J", "K", "L"} |->
        CASE key \in {"h", "Left"} -> <<"Left", FALSE>>
          [] key \in {"j", "Down"} -> <<"Down", FALSE>>
          [] key \in {"k", "Up"} -> <<"Up", FALSE>>
          [] key \in {"l", "Right"} -> <<"Right", FALSE>>
          [] key = "H" -> <<"Left", TRUE>>
          [] key = "J" -> <<"Down", TRUE>>
          [] key = "K" -> <<"Up", TRUE>>
          [] key = "L" -> <<"Right", TRUE>>]

Normal_move(ed, key) ==
    move_selections(ed, ed.focused, NormalMoves[key][1], NormalMoves[key][2])

Normal_d(ed) == delete_selections(ed, ed.focused)

\* The keys of Goto mode bound to the movements they have in Normal mode.
GotoMoves_as_in_Normal ==
    [key \in {"h", "j", "k", "l"} |->
        CASE key = "h" -> "Left"
          [] key = "j" -> "Down"
          [] key = "k" -> "Up"
          [] key = "l" -> "Right"]

\* The keys of Goto mode: key -> movement.
GotoMoves ==
    [key \in {"h", "j", "k", "l"} |->
        CASE key = "h" -> "LineStart"
          [] key = "j" -> "FileEnd"
          [] key = "k" -> "FileStart"
          [] key = "l" -> "LineEnd"]

Goto_move(ed, key, drag) ==
    then(move_selections(ed, ed.focused, GotoMoves[key], drag),
         LAMBDA e : ER(set_mode(e, e.focused, Normal), Ok))

Goto_other(ed) == ER(set_mode(ed, ed.focused, Normal), Ok)

\* The Escape arm of Insert and Append mode entering Command mode.
Insert_Esc_entering_Command(ed) == ER(set_mode(ed, ed.focused, Command), Ok)

Insert_Esc(ed) == ER(set_mode(ed, ed.focused, Normal), Ok)

Insert_Char(ed, c) ==
    for_selections(ed, selections(ed, ed.focused),
        LAMBDA e0, id :
            then(insert_char_before(e0, e0.focused, id, c), LAMBDA e1 :
                 shift_selection(e1, e1.focused, id, "Right")))

Append_Char(ed, c) ==
    for_selections(ed, selections(ed, ed.focused),
        LAMBDA e0, id :
            then(move_selection(e0, e0.focused, id, "Right", TRUE), LAMBDA e1 :
                 insert_char_after(e1, e1.focused, id, c)))

Insert_Backspace(ed) ==
    then(move_selections(ed, ed.focused, "Left", FALSE),
         LAMBDA e : delete_selections(e, e.focused))

Command_Esc(ed) ==
    ER(set_mode([ed EXCEPT !.windows[ed.focused + 1].command = <<>>], ed.focused, Normal), Ok)

\* The Enter arm with the command line taken only once it has been parsed.
Command_Enter_taking_after_parse(ed, file) ==
    LET command == window_of(ed, ed.focused).command
        e1 == set_mode([ed EXCEPT !.windows[ed.focused + 1].command = <<>>],
                       ed.focused, Normal)
    IN IF ~shlex(command).some THEN ER(set_mode(ed, ed.focused, Normal), FailedToParse)
       ELSE cmd(e1, shlex(command).words, file)

Command_Enter(ed, file) ==
    LET command == window_of(ed, ed.focused).command
        e1 == set_mode([ed EXCEPT !.windows[ed.focused + 1].command = <<>>],
                       ed.focused, Normal)
    IN IF ~shlex(command).some THEN ER(e1, FailedToParse)
       ELSE cmd(e1, shlex(command).words, file)

Command_Char(ed, c) ==
    ER([ed EXCEPT !.windows[ed.focused + 1].command = Append(@, c)], Ok)

Command_Backspace(ed) ==
    IF window_of(ed, ed.focused).command = <<>>
    THEN ER(set_mode(ed, ed.focused, Normal), Ok)
    ELSE ER([ed EXCEPT !.windows[ed.focused + 1].command = SubSeq(@, 1, Len(@) - 1)], Ok)

\* The events of the model: the keys some arm of Edot::event names, the
\* characters typed as text or on the command line, and one event that no
\* arm names.
Events ==
    {"i", "c", "a", "A", "o", "x", "X", "g", "G", ":", "d", Esc, Backspace, Tab, Unmatched}
        \cup DOMAIN NormalMoves \cup Chars \cup CmdChars

\* Key::Char(_) taken to match every event.
IsChar_every_event(key) == TRUE

\* Key::Char(_): the events that carry a character.
IsChar(key) == key \notin {Esc, Backspace, "Left", "Down", "Up", "Right", Unmatched}

\* Edot::event: the match on the focused window's mode and on the event.
\* file is what the file system gives if the event leads to Edit::run.
event(ed, key, file) ==
    LET m == window_of(ed, ed.focused).mode IN
    CASE m = Normal ->
            (CASE key = "i" -> Normal_i(ed)
               [] key = "c" -> Normal_c(ed)
               [] key = "a" -> Normal_a(ed)
               [] key = "A" -> Normal_A(ed)
               [] key = "o" -> Normal_o(ed)
               [] key \in {"x", "X"} -> ER(ed, Ok)
               [] key = "g" -> Normal_g(ed, FALSE)
               [] key = "G" -> Normal_g(ed, TRUE)
               [] key = ":" -> Normal_colon(ed)
               [] key \in DOMAIN NormalMoves -> Normal_move(ed, key)
               [] key = "d" -> Normal_d(ed)
               [] OTHER -> ER(ed, Ok))
      [] m.tag = "Goto" ->
            IF key \in DOMAIN GotoMoves THEN Goto_move(ed, key, m.drag) ELSE Goto_other(ed)
      [] m \in {Insert, Append_} ->
            (CASE key = Esc -> Insert_Esc(ed)
               [] IsChar(key) -> IF m = Insert THEN Insert_Char(ed, key) ELSE Append_Char(ed, key)
               [] key = Backspace -> Insert_Backspace(ed)
               [] OTHER -> ER(ed, Ok))
      [] m = Command ->
            (CASE key = Esc -> Command_Esc(ed)
               [] key = Tab -> ER(ed, Ok)
               [] key = NL -> Command_Enter(ed, file)
               [] IsChar(key) -> Command_Char(ed, key)
               [] key = Backspace -> Command_Backspace(ed)
               [] OTHER -> ER(ed, Ok))

\* ------------------------------------------------------------------------
\* The main loop: one action is one iteration of the loop of Edot::run,
\* draw (which takes the pending message) and then Edot::main with the arm
\* of select! that fired.
\* ------------------------------------------------------------------------
\* The keys handled so far as long as they spell i c1 .. cn Esc with
\* non-newline characters c, Off afterwards.
Off == <<"off">>

keys_after(key) ==
    IF keys = Off THEN Off
    ELSE IF keys = <<>> THEN (IF key = "i" THEN <<"i">> ELSE Off)
    ELSE IF keys[Len(keys)] = Esc THEN Off
    ELSE IF key = Esc \/ key \in Chars \ {NL} THEN Append(keys, key)
    ELSE Off

Cur == Ed(windows, buffers, focused, exit)

mode == window_of(Cur, focused).mode

WithinBounds(ed) ==
    /\ total_len(ed.buffers) <= MaxLen
    /\ Len(ed.windows) <= MaxWindows
    /\ ed.exit <= MaxExit
    /\ \A i \in 1..Len(ed.windows) : ed.windows[i].command \in CmdPrefixes

\* recv(self.input) -> self.event(key), and what run does with the result:
\* a panic ends the process, an error becomes the pending message.
Handled(key, r) ==
    /\ running
    /\ aborted = None
    /\ WithinBounds(r.ed)
    /\ IF IsPanic(r.res)
       THEN /\ aborted' = r.res
            /\ UNCHANGED <<windows, buffers, focused, message, exit, running, keys>>
       ELSE /\ windows' = r.ed.windows
            /\ buffers' = r.ed.buffers
            /\ focused' = r.ed.focused
            /\ exit' = r.ed.exit
            /\ message' = IF r.res = Ok THEN None ELSE r.res
            /\ keys' = keys_after(key)
            /\ UNCHANGED <<running, aborted>>
    /\ UNCHANGED loc_vars

NormalI == mode = Normal /\ Handled("i", Normal_i(Cur))

NormalC == mode = Normal /\ Handled("c", Normal_c(Cur))

NormalA == mode = Normal /\ Handled("a", Normal_a(Cur))

NormalShiftA == mode = Normal /\ Handled("A", Normal_A(Cur))

NormalO == mode = Normal /\ Handled("o", Normal_o(Cur))

NormalX == mode = Normal /\ \E key \in {"x", "X"} : Handled(key, ER(Cur, Ok))

NormalG == mode = Normal /\ Handled("g", Normal_g(Cur, FALSE))

NormalShiftG == mode = Normal /\ Handled("G", Normal_g(Cur, TRUE))

NormalColon == mode = Normal /\ Handled(":", Normal_colon(Cur))

NormalMove == mode = Normal /\ \E key \in DOMAIN NormalMoves : Handled(key, Normal_move(Cur, key))

NormalD == mode = Normal /\ Handled("d", Normal_d(Cur))

NormalOther ==
    mode = Normal /\ \E key \in {Esc, Backspace, NL, Tab, Unmatched} : Handled(key, ER(Cur, Ok))

GotoMove ==
    mode.tag = "Goto" /\ \E key \in DOMAIN GotoMoves : Handled(key, Goto_move(Cur, key, mode.drag))

GotoOther ==
    mode.tag = "Goto" /\ \E key \in {Esc, "a", Unmatched} : Handled(key, Goto_other(Cur))

InsertEsc == mode \in {Insert, Append_} /\ Handled(Esc, Insert_Esc(Cur))

InsertChar == mode = Insert /\ \E c \in Chars : Handled(c, Insert_Char(Cur, c))

AppendChar == mode = Append_ /\ \E c \in Chars : Handled(c, Append_Char(Cur, c))

InsertBackspace == mode \in {Insert, Append_} /\ Handled(Backspace, Insert_Backspace(Cur))

InsertOther ==
    mode \in {Insert, Append_} /\ \E key \in {"Left", Unmatched} : Handled(key, ER(Cur, Ok))

CommandEsc == mode = Command /\ Handled(Esc, Command_Esc(Cur))

CommandTab == mode = Command /\ Handled(Tab, ER(Cur, Ok))

CommandEnter == mode = Command /\ \E file \in Files : Handled(NL, Command_Enter(Cur, file))

CommandChar == mode = Command /\ \E c \in CmdChars : Handled(c, Command_Char(Cur, c))

CommandBackspace == mode = Command /\ Handled(Backspace, Command_Backspace(Cur))

CommandOther ==
    mode = Command /\ \E key \in {"Left", Unmatched} : Handled(key, ER(Cur, Ok))

\* recv(self.signal) -> self.signal(SIGWINCH): a redraw
Signal ==
    /\ running
    /\ aborted = None
    /\ message' = None
    /\ UNCHANGED <<windows, buffers, focused, exit, running, aborted, keys>>
    /\ UNCHANGED loc_vars

\* recv(self.exit.1) -> return Ok(false): run returns
Exit ==
    /\ running
    /\ aborted = None
    /\ exit > 0
    /\ exit' = exit - 1
    /\ running' = FALSE
    /\ message' = None
    /\ UNCHANGED <<windows, buffers, focused, aborted, keys>>
    /\ UNCHANGED loc_vars

\* Edot::new
EdotInit ==
    /\ windows = <<[buffer |-> 0,
                    mode |-> Normal,
                    selections |-> <<Sel(Pos(1, 1), Pos(1, 1))>>,
                    command |-> <<>>,
                    top |-> 1]>>
    /\ buffers = <<[content |-> <<NL>>,
                    name |-> <<"s", "c", "r", "a", "t", "c", "h">>,
                    path |-> <<>>]>>
    /\ focused = 0
    /\ message = None
    /\ exit = 0
    /\ running = TRUE
    /\ aborted = None
    /\ keys = <<>>

NoCall == [op |-> "none", rope |-> <<>>, sel |-> Sel(Pos(1, 1), Pos(1, 1)),
           point |-> Pos(1, 1), res |-> Ok, holds |-> FALSE]

LocIdle ==
    /\ rope = <<>>
    /\ sel = Sel(Pos(1, 1), Pos(1, 1))
    /\ point = Pos(1, 1)
    /\ last = NoCall

Init == EdotInit /\ LocIdle

Next ==
    \/ NormalI \/ NormalC \/ NormalA \/ NormalShiftA \/ NormalO \/ NormalX
    \/ NormalG \/ NormalShiftG \/ NormalColon \/ NormalMove \/ NormalD \/ NormalOther
    \/ GotoMove \/ GotoOther
    \/ InsertEsc \/ InsertChar \/ AppendChar \/ InsertBackspace \/ InsertOther
    \/ CommandEsc \/ CommandTab \/ CommandEnter \/ CommandChar \/ CommandBackspace
    \/ CommandOther
    \/ Signal \/ Exit

Spec == Init /\ [][Next]_vars

\* The loop under a fair select!: an exit message that stays ready is
\* eventually the one select! takes.
SpecFair == Spec /\ WF_vars(Exit)

\* ------------------------------------------------------------------------
\* The functions of location.rs applied to a rope and a selection of any
\* shape: every rope up to MaxLen characters, endpoints on any line of it
\* and at any column up to one past the longest possible line.
\* ------------------------------------------------------------------------
Ropes == UNION {[1..n -> Chars] : n \in 0..MaxLen}

PositionsIn(r) == {Pos(l, c) : l \in 1..len_lines(r), c \in 1..(MaxLen + 1)}

Points == {Pos(l, c) : l \in 1..(MaxLen + 1), c \in 1..(MaxLen + 1)}

Call(op, p, res, holds) ==
    [op |-> op, rope |-> rope, sel |-> sel, point |-> p, res |-> res, holds |-> holds]

LocInit ==
    /\ EdotInit
    /\ rope \in Ropes
    /\ \E s \in PositionsIn(rope), e \in PositionsIn(rope) : sel = Sel(s, e)
    /\ point = Pos(1, 1)
    /\ last = NoCall

\* One function is applied to the inputs Init drew; the editor is not involved.
OneCall == last = NoCall /\ UNCHANGED edot_vars

\* sel.end.move_to(&rope, movement)
LocMoveTo ==
    /\ OneCall
    /\ \E movement \in Movements :
           LET r == move_to(sel.end, rope, movement) IN
           /\ sel' = IF IsPanic(r.res) THEN sel ELSE Sel(sel.start, r.pos)
           /\ last' = Call(movement, point, r.res, FALSE)
           /\ UNCHANGED <<rope, point>>

\* sel.end.move_to(&rope, Right)?; sel.end.move_to(&rope, Left)?
LocRightLeft ==
    /\ OneCall
    /\ LET r == and_then(move_to(sel.end, rope, "Right"),
                         LAMBDA p : move_to(p, rope, "Left")) IN
       /\ sel' = IF IsPanic(r.res) THEN sel ELSE Sel(sel.start, r.pos)
       /\ last' = Call("Right;Left", point, r.res, FALSE)
       /\ UNCHANGED <<rope, point>>

\* sel.validate(&rope)
LocValidate ==
    /\ OneCall
    /\ LET r == Selection_validate(sel, rope) IN
       /\ sel' = IF IsPanic(r.res) THEN sel ELSE r.sel
       /\ last' = Call("validate", point, r.res, FALSE)
       /\ UNCHANGED <<rope, point>>

\* sel.validate_fix(&mut rope)
LocValidateFix ==
    /\ OneCall
    /\ LET r == Selection_validate_fix(sel, rope) IN
       /\ sel' = IF IsPanic(r.res) THEN sel ELSE r.sel
       /\ rope' = IF IsPanic(r.res) THEN rope ELSE r.rope
       /\ last' = Call("validate_fix", point, r.res, FALSE)
       /\ UNCHANGED point

\* sel.order()
LocOrder ==
    /\ OneCall
    /\ sel' = order(sel)
    /\ last' = Call("order", point, Ok, FALSE)
    /\ UNCHANGED <<rope, point>>

\* sel.flip()
LocFlip ==
    /\ OneCall
    /\ sel' = flip(sel)
    /\ last' = Call("flip", point, Ok, FALSE)
    /\ UNCHANGED <<rope, point>>

\* sel.contains(p): sel is passed by value
LocContains ==
    /\ OneCall
    /\ \E p \in Points :
           /\ point' = p
           /\ last' = Call("contains", p, Ok, contains(sel, p))
           /\ UNCHANGED <<rope, sel>>

\* sel.remove_from(&mut rope)
LocRemoveFrom ==
    /\ OneCall
    /\ LET r == remove_from(sel, rope) IN
       /\ sel' = IF IsPanic(r.res) THEN sel ELSE r.sel
       /\ rope' = IF IsPanic(r.res) THEN rope ELSE r.rope
       /\ last' = Call("remove_from", point, r.res, FALSE)
       /\ UNCHANGED point

\* sel.end.insert_char(&mut rope, c)
LocInsertChar ==
    /\ OneCall
    /\ \E c \in Chars :
           LET r == insert_char(sel.end, rope, c) IN
           /\ Len(r.rope) <= MaxLen
           /\ rope' = r.rope
           /\ last' = Call("insert_char", point, r.res, FALSE)
           /\ UNCHANGED <<sel, point>>

\* self.move_selections(window, movement, false) in an editor whose one
\* window holds two cursors on rope: one at sel.start, one at sel.end.
\* point takes the first cursor's outcome and sel the second selection's.
LocMoveSelections ==
    /\ OneCall
    /\ \E movement \in Movements :
           LET window == [buffer |-> 0,
                          mode |-> Normal,
                          selections |-> <<Sel(sel.start, sel.start), Sel(sel.end, sel.end)>>,
                          command |-> <<>>,
                          top |-> 1]
               buffer == [content |-> rope, name |-> <<>>, path |-> <<>>]
               r == move_selections(Ed(<<window>>, <<buffer>>, 0, 0), 0, movement, FALSE)
           IN /\ point' = IF IsPanic(r.res) THEN point ELSE selection_of(r.ed, 0, 0).end
              /\ sel' = IF IsPanic(r.res) THEN sel ELSE selection_of(r.ed, 0, 1)
              /\ last' = [op |-> "move_selections", movement |-> movement, rope |-> rope,
                           sel |-> sel, point |-> point, res |-> r.res, holds |-> FALSE]
              /\ UNCHANGED rope

\* self.move_selection(window, selection, movement, drag) in an editor whose
\* one window holds sel over rope.
LocMoveSelection ==
    /\ OneCall
    /\ \E movement \in Movements, drag \in BOOLEAN :
           LET window == [buffer |-> 0,
                          mode |-> Normal,
                          selections |-> <<sel>>,
                          command |-> <<>>,
                          top |-> 1]
               buffer == [content |-> rope, name |-> <<>>, path |-> <<>>]
               r == move_selection(Ed(<<window>>, <<buffer>>, 0, 0), 0, 0, movement, drag)
           IN /\ sel' = IF IsPanic(r.res) THEN sel ELSE selection_of(r.ed, 0, 0)
              /\ last' = [op |-> "move_selection", movement |-> movement, drag |-> drag,
                           rope |-> rope, sel |-> sel, point |-> point, res |-> r.res,
                           holds |-> FALSE]
              /\ UNCHANGED <<rope, point>>

LocNext ==
    \/ LocMoveTo \/ LocRightLeft \/ LocValidate \/ LocValidateFix \/ LocOrder
    \/ LocFlip \/ LocContains \/ LocRemoveFrom \/ LocInsertChar \/ LocMoveSelections
    \/ LocMoveSelection

SpecLoc == LocInit /\ [][LocNext]_vars

\* ------------------------------------------------------------------------
\* Properties
\* ------------------------------------------------------------------------
EndsWithNewline(r) == Len(r) > 0 /\ r[Len(r)] = NL

\* The lines of a rope, each with its line break; the last one is what
\* follows the last line break and may be empty.
RECURSIVE LinesOf(_)
LinesOf(r) ==
    IF \A i \in 1..Len(r) : r[i] # NL THEN <<r>>
    ELSE LET i == CHOOSE i \in 1..Len(r) : r[i] = NL /\ \A j \in 1..(i - 1) : r[j] # NL
         IN <<SubSeq(r, 1, i)>> \o LinesOf(SubSeq(r, i + 1, Len(r)))

\* p is on a line of r and on one of its characters.
ValidIn(p, r) == p.line <= Len(LinesOf(r)) /\ p.column <= Len(LinesOf(r)[p.line])

Endpoints(s) == {s.start, s.end}

\* The selections of all windows, each with the text of its window's buffer.
AllSelections ==
    UNION {{[sel |-> windows[w].selections[i], text |-> buffers[windows[w].buffer + 1].content] :
                i \in 1..Len(windows[w].selections)} : w \in 1..Len(windows)}

scratch == buffers[1].content

\* C1: after any sequence of handled key events the scratch buffer is
\* non-empty and its last character is a newline.
C1_ScratchEndsWithNewline == EndsWithNewline(scratch)

\* C2: after each handled event both ends of every selection are valid
\* against the window's buffer: the column is at most the length of the
\* addressed line, its newline included.
C2_SelectionsValid ==
    aborted = None => \A s \in AllSelections : \A p \in Endpoints(s.sel) : ValidIn(p, s.text)

\* C2 as amended: both ends of every selection are on a line of the window's
\* buffer, and that line has characters unless the whole buffer is empty;
\* the column itself can be past the line's end, since Up and Down keep it.
C2_SelectionsOnNonEmptyLine ==
    \A s \in AllSelections : \A p \in Endpoints(s.sel) :
        /\ p.line <= Len(LinesOf(s.text))
        /\ s.text # <<>> => Len(LinesOf(s.text)[p.line]) > 0

C2_Witness ==
    /\ aborted = None
    /\ \E s \in AllSelections :
        /\ s.sel.end.line <= Len(LinesOf(s.text))
        /\ s.sel.end.column > Len(LinesOf(s.text)[s.sel.end.line])

\* C3: validation on the empty first line of an empty buffer gives the
\* error SelectionEmpty as a status message; it never aborts the process.
C3_SelectionEmptyIsNoAbort == aborted # PanicSelectionEmpty

\* C4: i, then n non-newline characters, then Escape, typed into the fresh
\* editor, leave the scratch buffer with these characters followed by a
\* newline, one selection collapsed at (1, n + 1) and Normal mode.
C4_InsertScenario ==
    /\ keys \notin {<<>>, Off} => aborted = None /\ message = None
    /\ (keys # Off /\ Len(keys) >= 2 /\ keys[Len(keys)] = Esc) =>
          LET n == Len(keys) - 2 IN
          /\ scratch = SubSeq(keys, 2, n + 1) \o <<NL>>
          /\ windows[1].selections = <<Sel(Pos(1, n + 1), Pos(1, n + 1))>>
          /\ windows[1].mode = Normal

C4_Witness ==
    /\ keys # Off /\ Len(keys) = 4 /\ keys[4] = Esc
    /\ scratch = <<"a", "a", NL>>

\* A movement key of Normal or Goto mode was handled and a MovementError
\* came back.
MovementFailed ==
    /\ message' \in MovementErrors
    /\ mode.tag \in {"Normal", "Goto"}
    /\ NormalMove \/ GotoMove

\* C5: when a movement returns a MovementError, the buffer and the
\* selection it was applied to are as they were before the call.
C5_FailedMovementChangesNothing ==
    [][MovementFailed => windows' = windows /\ buffers' = buffers]_vars

\* C5 as amended: when a movement applied to a valid cursor returns a
\* MovementError, the buffer and the selection are as they were before.
C5_FailedMovementFromValidCursor ==
    [][(/\ MovementFailed
        /\ \A i \in 1..Len(windows[focused + 1].selections) :
              ValidIn(windows[focused + 1].selections[i].end,
                      buffers[windows[focused + 1].buffer + 1].content))
       => windows' = windows /\ buffers' = buffers]_vars

\* Left has failed at (1, 1) with the anchor elsewhere; the first line has
\* two characters or more, so no clamping has put the cursor there.
C5_Witness ==
    /\ message = NoPrevLine
    /\ windows[focused + 1].mode = Normal
    /\ windows[focused + 1].selections[1].end = Pos(1, 1)
    /\ windows[focused + 1].selections[1].start # Pos(1, 1)
    /\ Len(LinesOf(buffers[windows[focused + 1].buffer + 1].content)[1]) >= 2

\* The inputs of the call recorded in last.
cursor == last.sel.end

lines == LinesOf(last.rope)

\* The line below the cursor's exists and has characters.
LineBelowNonEmpty == cursor.line < Len(lines) /\ Len(lines[cursor.line + 1]) > 0

\* C6: Down succeeds, adding one to the line and keeping the column, exactly
\* when the line is not the last one and the line below has characters;
\* otherwise it fails with NoNextLine and lands nowhere.
C6_DownIffLineBelowNonEmpty ==
    last.op = "Down" =>
        IF LineBelowNonEmpty
        THEN last.res = Ok /\ sel.end = Pos(cursor.line + 1, cursor.column)
        ELSE last.res = NoNextLine /\ sel.end = cursor

C6_Witness ==
    /\ last.op = "Down"
    /\ EndsWithNewline(last.rope)
    /\ cursor.line = Len(lines) - 1
    /\ last.res = NoNextLine
    /\ sel.end = cursor

\* C7: in a buffer that ends with a newline, from a valid position from
\* which Right succeeds, Right and then Left lead back to that position,
\* also when Right wraps to column 1 of the next line.
C7_RightThenLeft ==
    (/\ last.op = "Right;Left"
     /\ EndsWithNewline(last.rope)
     /\ ValidIn(cursor, last.rope)
     /\ move_to(cursor, last.rope, "Right").res = Ok)
    => last.res = Ok /\ sel.end = cursor

C7_Witness ==
    /\ last.op = "Right;Left"
    /\ EndsWithNewline(last.rope)
    /\ ValidIn(cursor, last.rope)
    /\ cursor.column = Len(lines[cursor.line])
    /\ move_to(cursor, last.rope, "Right").pos = Pos(cursor.line + 1, 1)
    /\ last.res = Ok
    /\ sel.end = cursor

\* The selection removed, in order, and the text that is left without it.
Lexi(p) == <<p.line, p.column>>

LexLe(a, b) == Lexi(a)[1] < Lexi(b)[1] \/ (Lexi(a)[1] = Lexi(b)[1] /\ Lexi(a)[2] <= Lexi(b)[2])

Lower(s) == IF LexLe(s.start, s.end) THEN s.start ELSE s.end

Upper(s) == IF LexLe(s.start, s.end) THEN s.end ELSE s.start

\* 1-based index in r of the character at the valid position p.
RECURSIVE LenOfLines(_)
LenOfLines(ls) == IF ls = <<>> THEN 0 ELSE Len(Head(ls)) + LenOfLines(Tail(ls))

IndexOf(p, r) == LenOfLines(SubSeq(LinesOf(r), 1, p.line - 1)) + p.column

Without(r, s) ==
    LET cut == SubSeq(r, 1, IndexOf(Lower(s), r) - 1) \o SubSeq(r, IndexOf(Upper(s), r) + 1, Len(r))
    IN IF cut = <<>> THEN <<NL>> ELSE cut

\* C8: for a buffer that ends with a newline and a selection with valid
\* ends, remove_from leaves the old text without the characters from the
\* first to the last end of the selection (a single newline if nothing is
\* left), the selection collapsed to one valid point, and a buffer that
\* still ends with a newline.
C8_RemoveFrom ==
    (/\ last.op = "remove_from"
     /\ EndsWithNewline(last.rope)
     /\ ValidIn(last.sel.start, last.rope)
     /\ ValidIn(last.sel.end, last.rope))
    => /\ last.res = Ok
       /\ rope = Without(last.rope, last.sel)
       /\ sel.start = sel.end
       /\ ValidIn(sel.start, rope)
       /\ EndsWithNewline(rope)

\* C9: after order, start <= end in the order by line and then column, the
\* two ends are the two ends there were, and a second order changes nothing.
C9_Order ==
    last.op = "order" =>
        /\ LexLe(sel.start, sel.end)
        /\ sel.start = Lower(last.sel)
        /\ sel.end = Upper(last.sel)
        /\ order(sel) = sel

C9_Witness ==
    /\ last.op = "order"
    /\ ~LexLe(last.sel.start, last.sel.end)
    /\ sel = Sel(last.sel.end, last.sel.start)

\* C10: contains(p) is true exactly when p lies between the lower and the
\* upper end of the selection, whichever of them is the start; the flipped
\* selection contains the same positions and the selection asked is not
\* reordered.
C10_Contains ==
    last.op = "contains" =>
        /\ last.holds = (LexLe(Lower(last.sel), last.point) /\ LexLe(last.point, Upper(last.sel)))
        /\ contains(flipped(last.sel), last.point) = last.holds
        /\ sel = last.sel

C10_Witness ==
    /\ last.op = "contains"
    /\ ~LexLe(last.sel.start, last.sel.end)
    /\ last.point \notin Endpoints(last.sel)
    /\ last.holds
    /\ sel = last.sel

\* A window as Enter leaves it: in Normal mode with an empty command line.
AfterEnter(w) == [w EXCEPT !.mode = Normal, !.command = <<>>]

\* C11: when the edit command fails on its path (canonicalize, open or read),
\* no buffer and no window is added, the focused id is unchanged, the error
\* is the pending message and the loop goes on; the only other change is
\* that the issuing window is in Normal mode with an empty command line.
C11_FailedEditAddsNothing ==
    [][(mode = Command /\ message' = IoError) =>
          /\ buffers' = buffers
          /\ focused' = focused
          /\ exit' = exit
          /\ windows' = [windows EXCEPT ![focused + 1] = AfterEnter(@)]
          /\ running'
          /\ aborted' = None]_vars

\* The edit command has failed in the second window.
C11_Witness ==
    /\ message = IoError
    /\ focused = 1
    /\ Len(windows) = 2
    /\ Len(buffers) = 2
    /\ windows[2].mode = Normal
    /\ windows[2].command = <<>>

\* C12: once quit has put its message on the exit channel, the next
\* iteration of the loop takes it and returns; no input event and no
\* resize notification is handled in between.
C12_NothingHandledAfterQuit == [][(running /\ exit > 0) => ~running']_vars

\* C13: an error raised while an iteration is handled never ends the loop:
\* no MovementError ends the process, and the loop stops running only by
\* taking a message from the exit channel.
C13_ErrorsNeverEndLoop ==
    [][running =>
          /\ aborted' # PanicSelectionEmpty
          /\ (~running' => exit > 0 /\ exit' = exit - 1)]_vars

\* focused and every window's buffer id are indices of existing elements.
IdsExist ==
    /\ focused \in 0..(Len(windows) - 1)
    /\ \A w \in 1..Len(windows) : windows[w].buffer \in 0..(Len(buffers) - 1)

\* Nothing is removed or moved: a window keeps its id and its buffer, a
\* buffer keeps its id, its name and its path.
IdsStable ==
    /\ Len(windows') >= Len(windows)
    /\ Len(buffers') >= Len(buffers)
    /\ \A w \in 1..Len(windows) : windows'[w].buffer = windows[w].buffer
    /\ \A b \in 1..Len(buffers) :
          buffers'[b].name = buffers[b].name /\ buffers'[b].path = buffers[b].path

\* C14: in every reachable state focused is the id of an existing window
\* and every window's buffer id is the id of an existing buffer; the two
\* collections only grow, so an id keeps denoting the same window or buffer.
C14_IdsExistAndStable == []IdsExist /\ [][IdsStable]_vars

\* A second window and buffer exist and have the focus; the first are in place.
C14_Witness ==
    /\ Len(windows) = 2
    /\ Len(buffers) = 2
    /\ focused = 1
    /\ windows[1].buffer = 0
    /\ windows[2].buffer = 1
    /\ buffers[1].path = <<>>
    /\ buffers[2].path # <<>>

\* C15: handling one event in Goto mode, one of h, j, k, l or any other,
\* leaves the focused window in Normal mode: Goto lasts for one event.
C15_GotoLastsOneEvent ==
    [][(mode.tag = "Goto" /\ aborted' = None /\ (GotoMove \/ GotoOther))
       => windows'[focused + 1].mode = Normal]_vars

\* G then j from the start of a two-line buffer: the selection runs from
\* the anchor to the start of the last line and the window is in Normal mode.
C15_Witness ==
    /\ windows[focused + 1].mode = Normal
    /\ message = None
    /\ Len(LinesOf(buffers[windows[focused + 1].buffer + 1].content)) = 2
    /\ windows[focused + 1].selections[1] = Sel(Pos(1, 1), Pos(2, 1))

\* C16: after Enter is handled in Command mode the window it was typed in
\* has an empty command line and is in Normal mode, whatever tokenization
\* and dispatch did; when tokenization fails or the name is not registered
\* the error is reported and nothing else in windows, buffers or focus
\* changes.  Stated on every Command-mode state the loop reaches, for every
\* file system answer, wherever handling Enter does not abort the process.
C16_EnterClearsCommandLine ==
    mode = Command =>
        \A file \in Files :
            LET r == Command_Enter(Cur, file) IN
            IsPanic(r.res) \/
                (/\ window_of(r.ed, focused).command = <<>>
                 /\ window_of(r.ed, focused).mode = Normal
                 /\ (r.res \in {FailedToParse, CommandDoesntExist} =>
                        /\ r.ed.windows = [windows EXCEPT ![focused + 1] = AfterEnter(@)]
                        /\ r.ed.buffers = buffers
                        /\ r.ed.focused = focused))

\* Enter on a command line that does not tokenize has been handled.
C16_Witness ==
    /\ message = FailedToParse
    /\ windows[focused + 1].command = <<>>
    /\ windows[focused + 1].mode = Normal

\* The rows of the mode table: the keys it lists for a mode.  A character
\* is any key but the arrows and the event that is not a key.
HasRow(tag, key) ==
    CASE tag = "Normal" ->
            key \in {"i", "c", "a", "A", "o", "g", "G", ":", "d"} \cup DOMAIN NormalMoves
      [] tag \in {"Insert", "Append", "Command"} ->
            key \notin {"Left", "Down", "Up", "Right", Unmatched}
      [] OTHER -> TRUE

\* The events without a row, by mode.
NoRowEvents ==
    [tag \in {"Normal", "Insert", "Append", "Command"} |->
        {key \in Events : ~HasRow(tag, key)}]

\* C17: in Normal, Insert, Append and Command mode an event the mode table
\* has no row for is a no-op: in every state the loop reaches, handling it
\* returns no error and leaves modes, selections, command lines, buffers,
\* focus and the exit channel as they are.
C17_UnmatchedEventsAreNoOps ==
    mode.tag \in DOMAIN NoRowEvents =>
        \A key \in NoRowEvents[mode.tag] : event(Cur, key, NoFile) = ER(Cur, Ok)

\* An event without a row has been handled in Insert mode right after i:
\* the window is still in Insert mode and nothing was typed.
C17_Witness ==
    /\ keys = Off
    /\ mode = Insert
    /\ message = None
    /\ Len(windows) = 1
    /\ scratch = <<NL>>
    /\ windows[1].selections = <<Sel(Pos(1, 1), Pos(1, 1))>>

C19_NoLineOrColumnBelowOne ==
    last.op \in Movements => last.res # PanicNonZero

\* The first selection of the focused window and the text it is in.
selection == windows[focused + 1].selections[1]

content == buffers[windows[focused + 1].buffer + 1].content

\* C20: in Append mode, whatever the cursor position, a character key keeps
\* the anchor, moves the cursor one step Right and inserts the character
\* there: the buffer grows by exactly one character, the typed one at the
\* new cursor, and the mode stays Append.
C20_AppendInsertsTheCharacter ==
    [][(mode = Append_ /\ aborted' = None /\ AppendChar) =>
          /\ Len(content') = Len(content) + 1
          /\ selection'.start = selection.start
          /\ selection'.end = move_to(selection.end, content, "Right").pos
          /\ \E c \in Chars :
                content' = rope_insert(content, char_of(selection'.end, content), c)
          /\ windows'[focused + 1].mode = Append_]_vars

\* C21: a successful move_selection without drag leaves the selection
\* collapsed on the position the cursor moved to; with drag the anchor is
\* as it was and only the cursor is at the moved position.
C21_DragKeepsAnchor ==
    (last.op = "move_selection" /\ last.res = Ok) =>
        /\ sel.end = move_to(last.sel.end, last.rope, last.movement).pos
        /\ sel.start = IF last.drag THEN last.sel.start ELSE sel.end

\* A selection that was not collapsed has been moved without drag.
C21_Witness ==
    /\ last.op = "move_selection"
    /\ last.res = Ok
    /\ ~last.drag
    /\ last.sel.start # last.sel.end
    /\ sel.end # last.sel.end
    /\ sel.start = sel.end

\* What validation makes of p in the rope of the recorded call, by
\* Position::validate and by Position::validate_fix.
Validated(p) == validate(p, last.rope)

ValidatedFix(p) == validate_fix(p, last.rope)

\* C22: in a non-empty buffer, for a position on an existing line,
\* validation succeeds and leaves a valid position; a position that was
\* valid is unchanged; validating again changes nothing; and validate_fix
\* gives the same position and leaves the buffer as it is.
C22_Validate ==
    (last.op = "validate" /\ last.rope # <<>>) =>
        /\ last.res = Ok
        /\ \A p \in Endpoints(last.sel) :
              /\ Validated(p).res = Ok
              /\ ValidIn(Validated(p).pos, last.rope)
              /\ (ValidIn(p, last.rope) => Validated(p).pos = p)
              /\ Validated(Validated(p).pos) = Validated(p)
              /\ ValidatedFix(p) = PF(Validated(p).pos, last.rope, Ok)
        /\ sel = Sel(Validated(last.sel.start).pos, Validated(last.sel.end).pos)
        /\ rope = last.rope

\* A column past the end of its line and a position on the empty line after
\* the final newline have been validated.
C22_Witness ==
    /\ last.op = "validate"
    /\ EndsWithNewline(last.rope)
    /\ last.sel.start.column > Len(LinesOf(last.rope)[last.sel.start.line]) + 1
    /\ last.sel.end.line = Len(LinesOf(last.rope))
    /\ sel.end.line = last.sel.end.line - 1
    /\ ValidIn(sel.start, rope)
    /\ ValidIn(sel.end, rope)

\* The window Edit::run creates on the buffer with id b.
FreshWindow(b) ==
    [buffer |-> b,
     mode |-> Normal,
     command |-> <<>>,
     selections |-> <<Sel(Pos(1, 1), Pos(1, 1))>>,
     top |-> 1]

\* C23: a successful edit command appends one buffer, holding the contents
\* of the file and its path, and one window on that buffer, in Normal mode
\* with an empty command line and the one selection (1,1)-(1,1); the focus
\* moves to the new window; the windows and buffers there were keep their
\* content, selections and buffer (the issuing window is as Enter leaves it).
C23_EditAppendsBufferAndWindow ==
    [][\A file \in Files :
          (/\ Len(windows') > Len(windows)
           /\ file # NoFile
           /\ mode = Command
           /\ Handled(NL, Command_Enter(Cur, file)))
          => /\ Len(buffers') = Len(buffers) + 1
             /\ SubSeq(buffers', 1, Len(buffers)) = buffers
             /\ buffers'[Len(buffers')].content = file
             /\ buffers'[Len(buffers')].path # <<>>
             /\ windows' = Append([windows EXCEPT ![focused + 1] = AfterEnter(@)],
                                  FreshWindow(Len(buffers)))
             /\ focused' = Len(windows)
             /\ message' = None]_vars

\* A file has been opened from the scratch window after text was typed
\* there: the text and the selection of the first window are in place.
C23_Witness ==
    /\ Len(windows) = 2
    /\ Len(buffers) = 2
    /\ focused = 1
    /\ message = None
    /\ buffers[1].content = <<"a", NL>>
    /\ windows[1].selections = <<Sel(Pos(1, 2), Pos(1, 2))>>
    /\ buffers[2].content = <<>>
    /\ windows[2] = FreshWindow(1)

\* C24: in every reachable state every window owns exactly one selection
\* and window k is on buffer k, so no two windows are on the same buffer.
C24_OneSelectionOneBuffer ==
    /\ Len(windows) = Len(buffers)
    /\ \A w \in 1..Len(windows) :
          /\ Len(windows[w].selections) = 1
          /\ windows[w].buffer = w - 1
    /\ \A v, w \in 1..Len(windows) : v # w => windows[v].buffer # windows[w].buffer

\* Both windows have been worked in, the cursor moved in the first and
\* text typed into the empty file of the second: each has its one selection
\* and its own buffer.
C24_Witness ==
    /\ Len(windows) = 2
    /\ windows[1].buffer = 0
    /\ windows[2].buffer = 1
    /\ Len(windows[1].selections) = 1
    /\ Len(windows[2].selections) = 1
    /\ windows[1].selections[1].end # Pos(1, 1)
    /\ buffers[2].content = <<NL>>

\* A window changes its mode only from Normal or to Normal.
StarStep ==
    \A w \in 1..Len(windows) :
        windows'[w].mode # windows[w].mode =>
            windows[w].mode = Normal \/ windows'[w].mode = Normal

\* What handling key leaves: the focused window in Normal mode, no error.
LeadsToNormal(key) ==
    LET r == event(Cur, key, NoFile)
    IN r.res = Ok /\ window_of(r.ed, focused).mode = Normal

\* Escape leads from Insert, Append, Command and Goto mode to Normal, and so
\* does every other key from Goto mode that does not end the process.
NormalIsNear ==
    /\ mode # Normal => LeadsToNormal(Esc)
    /\ mode.tag = "Goto" =>
          \A key \in Events : IsPanic(event(Cur, key, NoFile).res) \/ LeadsToNormal(key)

\* C25: the mode graph is a star centred on Normal: one event leaves a
\* window in its mode or takes it from Normal or to Normal, never from one
\* of Insert, Append, Goto, Command to another; and Normal is one event
\* away from every mode, by Escape, and by any key from Goto.
C25_ModeStar == []NormalIsNear /\ [][StarStep]_vars

\* i and then Escape have been handled: the window went from Normal to
\* Insert mode and back to Normal.
C25_Witness ==
    /\ keys = <<"i", Esc>>
    /\ mode = Normal
    /\ message = None

\* A key that only moves or switches mode is handled: in Normal mode a
\* movement key or one of g, G, :, i, a; in Goto mode any key.
MovingStep ==
    /\ mode.tag \in {"Normal", "Goto"}
    /\ \/ NormalMove \/ NormalG \/ NormalShiftG \/ NormalColon \/ NormalI \/ NormalA
       \/ GotoMove \/ GotoOther

\* C26: movement never modifies text: no step that changes the content of
\* a buffer is the handling of a Normal-mode movement key, of g, G, :, i or
\* a, or of a key in Goto mode, whether the movement succeeds or fails.
C26_MovementKeepsText == [][buffers' # buffers => ~MovingStep]_vars

\* A dragging movement has failed at the end of a buffer with text: the
\* selection is extended, the error is pending and the text is in place.
C26_Witness ==
    /\ mode = Normal
    /\ message = NoNextLine
    /\ scratch = <<"a", "a", NL>>
    /\ windows[1].selections = <<Sel(Pos(1, 1), Pos(1, 3))>>

\* C27: starting from the fresh editor no sequence of key events ends the
\* process: every event ends in success or in a reported error.
C27_NoAbort == aborted = None

\* C28: once quit has put a message on the exit channel the loop eventually
\* returns, when select! chooses fairly among the ready channels, however
\* many input events and resize notifications keep arriving.
C28_QuitEventuallyReturns == (exit > 0) ~> ~running

====
